---- MODULE Spec2Model ----
(***************************************************************************)
(* Model of ts/src/coder/borsh/accounts.ts: BorshAccountsCoder (the        *)
(* account encoder/decoder) and BorshAccountHeader (the header codec).     *)
(*                                                                         *)
(* Conventions.  A JavaScript value that may be `undefined` is a set with  *)
(* at most one element: {} is undefined, {x} is the value x.  A Buffer is  *)
(* a sequence of bytes (0..255).  The outcome of a call is a record        *)
(* [kind, err, bytes, value, filter, num]; kind is "ok" or "error" and err *)
(* names the exception: "UnknownAccount" (Error `Unknown account: ...`),   *)
(* "InvalidDiscriminator" (Error `Invalid account discriminator`),         *)
(* "RangeError" (a layout reading or writing outside its buffer) and       *)
(* "TypeError" (a property read on undefined).                             *)
(***************************************************************************)
EXTENDS Integers, Sequences, FiniteSets, TLC

VARIABLES idl, accountLayouts, thisIdl, header, call, result, served

vars == <<idl, accountLayouts, thisIdl, header, call, result, served>>

(***************************************************************************)
(* Program constants.                                                      *)
(***************************************************************************)
ACCOUNT_HEADER_SIZE == 8
ACCOUNT_DISCRIMINATOR_SIZE == 4
DEPRECATED_ACCOUNT_DISCRIMINATOR_SIZE == 8
\* Buffer.alloc(1000) in encode.
ENCODE_BUFFER_SIZE == 1000

(***************************************************************************)
(* Bounds of the model.                                                    *)
(***************************************************************************)
\* u8 field values are 0..MaxN.
MaxN == 1
\* Short Vec<u8> values have 0..MaxVecLen elements, each in 0..1.
MaxVecLen == 1
\* Long Vec<u8> values have ENCODE_BUFFER_SIZE - 4 - 1 + k elements, k in
\* 0..MaxOver + 1: bodies of ENCODE_BUFFER_SIZE - 1 bytes and more.
MaxOver == 1
\* Decode inputs include every prefix of at most MaxCut bytes of a record.
MaxCut == 9
\* Callers make at most MaxCalls calls on one coder.
MaxCalls == 2

Min(a, b) == IF a < b THEN a ELSE b

(***************************************************************************)
(* Buffers.                                                                *)
(***************************************************************************)
\* Buffer.prototype.slice(start, end): clamped to the buffer, never throws.
Slice(b, start, end) ==
  [i \in 1..(Min(end, Len(b)) - Min(start, Len(b))) |-> b[start + i]]

\* Buffer.prototype.slice(start).
SliceFrom(b, start) == Slice(b, start, Len(b))

\* Mutant: compares over the shorter length only, so a prefix compares equal.
RECURSIVE BufferComparePrefix(_, _)
BufferComparePrefix(a, b) ==
  IF Len(a) = 0 \/ Len(b) = 0 THEN 0
  ELSE IF Head(a) < Head(b) THEN -1
  ELSE IF Head(a) > Head(b) THEN 1
  ELSE BufferComparePrefix(Tail(a), Tail(b))

\* Buffer.prototype.compare: -1, 0 or 1, bytewise then by length.
RECURSIVE BufferCompare(_, _)
BufferCompare(a, b) ==
  IF Len(a) = 0 /\ Len(b) = 0 THEN 0
  ELSE IF Len(a) = 0 THEN -1
  ELSE IF Len(b) = 0 THEN 1
  ELSE IF Head(a) < Head(b) THEN -1
  ELSE IF Head(a) > Head(b) THEN 1
  ELSE BufferCompare(Tail(a), Tail(b))

(***************************************************************************)
(* Names, canonical case and digest.                                       *)
(***************************************************************************)
\* The account names callers pass.  "Counter" canonicalises like "counter";
\* "ghost" is declared by no schema.
Names == {"counter", "blob", "empty", "Counter", "ghost"}

\* camelcase(name, { pascalCase: true }) on the names of the model.
PascalCase(name) ==
  CASE name = "counter" -> "Counter"
    [] name = "Counter" -> "Counter"
    [] name = "blob" -> "Blob"
    [] name = "empty" -> "Empty"
    [] name = "ghost" -> "Ghost"

\* sha256.digest(s): the 32 bytes of SHA-256 of s, for the preimages of the model.
Sha256Digest(s) ==
  CASE s = "account:Counter" ->
         <<255, 176, 4, 245, 188, 253, 124, 25, 151, 102, 57, 201, 199, 146, 46, 77,
           91, 0, 176, 44, 29, 73, 252, 8, 51, 251, 240, 243, 0, 198, 215, 195>>
    [] s = "account:Blob" ->
         <<48, 230, 204, 234, 142, 194, 54, 53, 188, 58, 20, 122, 25, 110, 232, 234,
           178, 74, 87, 199, 248, 194, 133, 172, 196, 15, 119, 77, 50, 114, 32, 165>>
    [] s = "account:Empty" ->
         <<15, 64, 23, 223, 220, 243, 41, 219, 163, 137, 227, 47, 114, 74, 140, 112,
           208, 169, 160, 39, 88, 89, 94, 63, 220, 40, 89, 213, 43, 243, 245, 145>>
    [] s = "account:Ghost" ->
         <<25, 42, 67, 41, 47, 233, 165, 157, 182, 252, 65, 210, 182, 223, 233, 86,
           150, 175, 112, 200, 92, 191, 94, 0, 40, 192, 89, 188, 73, 150, 168, 68>>

(***************************************************************************)
(* BorshAccountHeader.  h is the header object [_idl |-> idl].             *)
(***************************************************************************)
discriminatorSize(h) ==
  IF h._idl.layoutVersion = {}
  THEN DEPRECATED_ACCOUNT_DISCRIMINATOR_SIZE
  ELSE ACCOUNT_DISCRIMINATOR_SIZE

\* nameSpace is {} when the caller passes none.
discriminator(h, name, nameSpace) ==
  Slice(Sha256Digest((IF nameSpace = {} THEN "account" ELSE CHOOSE n \in nameSpace : TRUE)
                     \o ":" \o PascalCase(name)),
        0, discriminatorSize(h))

headerEncode(h, accountName, nameSpace) ==
  IF h._idl.layoutVersion = {}
  THEN discriminator(h, accountName, nameSpace)
  ELSE <<0>> \o <<0>> \o discriminator(h, accountName, nameSpace) \o <<0, 0>>

\* Mutant: the legacy offset in both formats.
discriminatorOffsetLegacy(h) == 0

discriminatorOffset(h) == IF h._idl.layoutVersion = {} THEN 0 ELSE 2

headerSize == ACCOUNT_HEADER_SIZE

parseDiscriminator(h, data) ==
  IF h._idl.layoutVersion = {} THEN Slice(data, 0, 8) ELSE Slice(data, 2, 6)

(***************************************************************************)
(* Base58 transport encoding (bs58.encode, the base-x algorithm): leading  *)
(* zero bytes become leading '1's, the rest is the big-endian number       *)
(* rewritten in base 58, digit by digit with a carry.                      *)
(***************************************************************************)
ALPHABET ==
  <<"1", "2", "3", "4", "5", "6", "7", "8", "9", "A", "B", "C", "D", "E", "F", "G",
    "H", "J", "K", "L", "M", "N", "P", "Q", "R", "S", "T", "U", "V", "W", "X", "Y",
    "Z", "a", "b", "c", "d", "e", "f", "g", "h", "i", "j", "k", "m", "n", "o", "p",
    "q", "r", "s", "t", "u", "v", "w", "x", "y", "z">>

RECURSIVE LeadingCount(_, _)
LeadingCount(s, x) ==
  IF s # <<>> /\ Head(s) = x THEN 1 + LeadingCount(Tail(s), x) ELSE 0

Reverse(s) == [i \in 1..Len(s) |-> s[Len(s) + 1 - i]]

\* digits (little-endian, base `to`) := digits * from + carry.
RECURSIVE MulAdd(_, _, _, _)
MulAdd(digits, carry, from, to) ==
  IF digits = <<>>
  THEN IF carry = 0 THEN <<>> ELSE <<carry % to>> \o MulAdd(<<>>, carry \div to, from, to)
  ELSE LET c == carry + from * Head(digits)
       IN <<c % to>> \o MulAdd(Tail(digits), c \div to, from, to)

RECURSIVE Rebase(_, _, _, _)
Rebase(src, digits, from, to) ==
  IF src = <<>> THEN digits
  ELSE Rebase(Tail(src), MulAdd(digits, Head(src), from, to), from, to)

Bs58Encode(source) ==
  LET zeroes == LeadingCount(source, 0)
      b58 == Reverse(Rebase(SliceFrom(source, zeroes), <<>>, 256, 58))
  IN [i \in 1..zeroes |-> "1"] \o [i \in 1..Len(b58) |-> ALPHABET[b58[i] + 1]]

\* What the remote store does with the filter's string: the inverse mapping.
Bs58Decode(str) ==
  LET idx(ch) == (CHOOSE k \in 1..58 : ALPHABET[k] = ch) - 1
      zeroes == LeadingCount(str, "1")
      rest == SliceFrom(str, zeroes)
      b256 == Reverse(Rebase([i \in 1..Len(rest) |-> idx(rest[i])], <<>>, 58, 256))
  IN [i \in 1..zeroes |-> 0] \o b256

(***************************************************************************)
(* Layouts: the field-by-field encoders IdlCoder.typeDefLayout builds.     *)
(* Three account types: a struct with one u8 field n, a struct with one    *)
(* Vec<u8> field data (u32 little-endian count, then the elements), and a  *)
(* struct with no fields.                                                  *)
(***************************************************************************)
AllAccounts ==
  << [name |-> "counter", fields |-> "u8"],
     [name |-> "blob", fields |-> "vecU8"],
     [name |-> "empty", fields |-> "none"] >>

typeDefLayout(acc) == acc.fields

U32LE(n) == <<n % 256, (n \div 256) % 256, (n \div 65536) % 256, (n \div 16777216) % 256>>

ReadU32LE(b) == b[1] + 256 * b[2] + 65536 * b[3] + 16777216 * b[4]

\* The bytes a layout writes for a value.
LayoutBytes(layout, v) ==
  CASE layout = "u8" -> <<v.n>>
    [] layout = "vecU8" -> U32LE(Len(v.data)) \o v.data
    [] layout = "none" -> <<>>

Err(e) == [kind |-> "error", err |-> e, bytes |-> <<>>, value |-> {}, filter |-> {}, num |-> {}]
OkBytes(b) == [kind |-> "ok", err |-> "", bytes |-> b, value |-> {}, filter |-> {}, num |-> {}]
OkValue(v) == [kind |-> "ok", err |-> "", bytes |-> <<>>, value |-> {v}, filter |-> {}, num |-> {}]
OkFilter(f) == [kind |-> "ok", err |-> "", bytes |-> <<>>, value |-> {}, filter |-> {f}, num |-> {}]
OkNum(n) == [kind |-> "ok", err |-> "", bytes |-> <<>>, value |-> {}, filter |-> {}, num |-> {n}]

\* layout.encode(src, b): writes into the zero-filled buffer of bufLen bytes
\* and reports the bytes written; a write past the end throws RangeError.
layoutEncode(layout, src, bufLen) ==
  LET w == LayoutBytes(layout, src)
  IN IF Len(w) > bufLen
     THEN [kind |-> "error", err |-> "RangeError", len |-> 0, buffer |-> <<>>]
     ELSE [kind |-> "ok", err |-> "", len |-> Len(w),
           buffer |-> w \o [i \in 1..(bufLen - Len(w)) |-> 0]]

\* layout.decode(b): reads the fields from the start of b, ignores what
\* follows them; a read past the end throws RangeError.
layoutDecode(layout, b) ==
  CASE layout = "u8" ->
         IF Len(b) < 1 THEN Err("RangeError") ELSE OkValue([n |-> b[1]])
    [] layout = "vecU8" ->
         IF Len(b) < 4 THEN Err("RangeError")
         ELSE IF Len(b) < 4 + ReadU32LE(b) THEN Err("RangeError")
         ELSE OkValue([data |-> Slice(b, 4, 4 + ReadU32LE(b))])
    [] layout = "none" -> OkValue([none |-> TRUE])

\* accountSize(idl, idlAccount): the statically known body size, {} if none.
accountSize(i, idlAccount) ==
  CASE idlAccount.fields = "u8" -> {1}
    [] idlAccount.fields = "vecU8" -> {}
    [] idlAccount.fields = "none" -> {0}

(***************************************************************************)
(* BorshAccountsCoder.  self is [accountLayouts, idl, header].             *)
(***************************************************************************)
\* An empty Map.
EmptyMap == [n \in {} |-> "none"]

constructor(i) ==
  IF i.accounts = {}
  THEN [accountLayouts |-> EmptyMap, idl |-> {}, header |-> {}]
  ELSE LET accs == CHOOSE a \in i.accounts : TRUE
       IN [accountLayouts |->
             [n \in {accs[k].name : k \in 1..Len(accs)} |->
                typeDefLayout(CHOOSE acc \in {accs[k] : k \in 1..Len(accs)} : acc.name = n)],
           idl |-> {i},
           header |-> {[_idl |-> i]}]

TheHeader(self) == CHOOSE h \in self.header : TRUE

\* Mutant: returns the whole scratch buffer, not its first len bytes.
encodeUntrimmed(self, accountName, account) ==
  IF accountName \notin DOMAIN self.accountLayouts THEN Err("UnknownAccount")
  ELSE LET w == layoutEncode(self.accountLayouts[accountName], account, ENCODE_BUFFER_SIZE)
       IN IF w.kind = "error" THEN Err(w.err)
          ELSE IF self.header = {} THEN Err("TypeError")
          ELSE OkBytes(headerEncode(TheHeader(self), accountName, {}) \o w.buffer)

encode(self, accountName, account) ==
  IF accountName \notin DOMAIN self.accountLayouts THEN Err("UnknownAccount")
  ELSE LET w == layoutEncode(self.accountLayouts[accountName], account, ENCODE_BUFFER_SIZE)
       IN IF w.kind = "error" THEN Err(w.err)
          ELSE IF self.header = {} THEN Err("TypeError")
          ELSE OkBytes(headerEncode(TheHeader(self), accountName, {})
                       \o Slice(w.buffer, 0, w.len))

\* Mutant: chops off the discriminator's width, not the header's.
decodeUncheckedDiscWidth(self, accountName, ix) ==
  LET data == SliceFrom(ix, IF self.header = {} THEN headerSize
                            ELSE discriminatorSize(TheHeader(self)))
  IN IF accountName \notin DOMAIN self.accountLayouts THEN Err("UnknownAccount")
     ELSE layoutDecode(self.accountLayouts[accountName], data)

decodeUnchecked(self, accountName, ix) ==
  LET data == SliceFrom(ix, headerSize)
  IN IF accountName \notin DOMAIN self.accountLayouts THEN Err("UnknownAccount")
     ELSE layoutDecode(self.accountLayouts[accountName], data)

decode(self, accountName, data) ==
  IF self.header = {} THEN Err("TypeError")
  ELSE IF BufferCompare(discriminator(TheHeader(self), accountName, {}),
                        parseDiscriminator(TheHeader(self), data)) # 0
  THEN Err("InvalidDiscriminator")
  ELSE decodeUnchecked(self, accountName, data)

memcmp(self, accountName) ==
  IF self.header = {} THEN Err("TypeError")
  ELSE OkFilter([offset |-> discriminatorOffset(TheHeader(self)),
                 bytes |-> Bs58Encode(discriminator(TheHeader(self), accountName, {}))])

memcmpDataOffset(self) == OkNum(headerSize)

size(self, idlAccount) ==
  LET s == accountSize(self.idl, idlAccount)
  IN OkNum(headerSize + (IF s = {} THEN 0 ELSE CHOOSE x \in s : TRUE))

(***************************************************************************)
(* Inputs.                                                                 *)
(***************************************************************************)
\* The schemas a coder is built from: accounts undefined, declared empty, or
\* the three account types; layoutVersion undefined (legacy) or 0 (versioned).
Schemas ==
  [accounts : {{}, {<<>>}, {AllAccounts}}, layoutVersion : {{}, {0}}]

ShortVecs == UNION {[1..k -> {0, 1}] : k \in 0..MaxVecLen}

LongVecs ==
  {[i \in 1..(ENCODE_BUFFER_SIZE - 5 + k) |-> 0] : k \in 0..(MaxOver + 1)}

\* The values valid for a layout.
ValuesOf(layout) ==
  CASE layout = "u8" -> {[n |-> k] : k \in 0..MaxN} \cup {[n |-> 255]}
    [] layout = "vecU8" -> {[data |-> d] : d \in ShortVecs \cup LongVecs}
    [] layout = "none" -> {[none |-> TRUE]}

Declared == {AllAccounts[k] : k \in 1..Len(AllAccounts)}

\* The values a caller passes with a name: valid for the type of that name
\* where a schema declares one.
ValuesFor(name) ==
  IF \E acc \in Declared : acc.name = name
  THEN ValuesOf((CHOOSE acc \in Declared : acc.name = name).fields)
  ELSE {[n |-> 0]}

HeaderOf(lv) == [_idl |-> [accounts |-> {AllAccounts}, layoutVersion |-> lv]]

\* Headers of both formats for every canonical name, and one of no type.
Headers ==
  {headerEncode(HeaderOf(lv), n, {}) : lv \in {{}, {0}},
                                        n \in {"counter", "blob", "empty", "ghost"}}
    \cup {<<0, 0, 7, 7, 7, 7, 0, 0>>}

Bodies ==
  {b \in UNION {{LayoutBytes(acc.fields, v) : v \in ValuesOf(acc.fields)} : acc \in Declared} :
     Len(b) <= ENCODE_BUFFER_SIZE}

Records == {h \o b : h \in Headers, b \in Bodies}

\* The byte sequences handed to decode and decodeUnchecked: records under
\* every header, and their prefixes of at most MaxCut bytes.
Inputs ==
  Records \cup {Slice(r, 0, k) : r \in {x \in Records : Len(x) <= 12}, k \in 0..MaxCut}

NoCall == [op |-> "none", accountName |-> "", account |-> {}, data |-> <<>>]

This == [accountLayouts |-> accountLayouts, idl |-> thisIdl, header |-> header]

(***************************************************************************)
(* The state machine: a coder is constructed, then callers call it one     *)
(* call at a time (every operation runs to completion).                    *)
(***************************************************************************)
Init ==
  /\ idl \in Schemas
  /\ accountLayouts = constructor(idl).accountLayouts
  /\ thisIdl = constructor(idl).idl
  /\ header = constructor(idl).header
  /\ call = NoCall
  /\ result = Err("")
  /\ served = 0

Idle == call.op = "none" /\ served < MaxCalls

Encode(accountName, account) ==
  /\ Idle
  /\ call' = [op |-> "encode", accountName |-> accountName, account |-> {account},
              data |-> <<>>]
  /\ result' = encode(This, accountName, account)
  /\ UNCHANGED <<idl, accountLayouts, thisIdl, header, served>>

Decode(accountName, data) ==
  /\ Idle
  /\ call' = [op |-> "decode", accountName |-> accountName, account |-> {}, data |-> data]
  /\ result' = decode(This, accountName, data)
  /\ UNCHANGED <<idl, accountLayouts, thisIdl, header, served>>

\* Mutant: a lookup that misses is remembered in the registry.
DecodeUncheckedRemembering(accountName, ix) ==
  /\ Idle
  /\ call' = [op |-> "decodeUnchecked", accountName |-> accountName, account |-> {},
              data |-> ix]
  /\ result' = decodeUnchecked(This, accountName, ix)
  /\ accountLayouts' =
       [n \in DOMAIN accountLayouts \cup {accountName} |->
          IF n \in DOMAIN accountLayouts THEN accountLayouts[n] ELSE "none"]
  /\ UNCHANGED <<idl, thisIdl, header, served>>

DecodeUnchecked(accountName, ix) ==
  /\ Idle
  /\ call' = [op |-> "decodeUnchecked", accountName |-> accountName, account |-> {},
              data |-> ix]
  /\ result' = decodeUnchecked(This, accountName, ix)
  /\ UNCHANGED <<idl, accountLayouts, thisIdl, header, served>>

Memcmp(accountName) ==
  /\ Idle
  /\ call' = [op |-> "memcmp", accountName |-> accountName, account |-> {}, data |-> <<>>]
  /\ result' = memcmp(This, accountName)
  /\ UNCHANGED <<idl, accountLayouts, thisIdl, header, served>>

MemcmpDataOffset ==
  /\ Idle
  /\ call' = [op |-> "memcmpDataOffset", accountName |-> "", account |-> {}, data |-> <<>>]
  /\ result' = memcmpDataOffset(This)
  /\ UNCHANGED <<idl, accountLayouts, thisIdl, header, served>>

Size(idlAccount) ==
  /\ Idle
  /\ call' = [op |-> "size", accountName |-> idlAccount.name, account |-> {}, data |-> <<>>]
  /\ result' = size(This, idlAccount)
  /\ UNCHANGED <<idl, accountLayouts, thisIdl, header, served>>

\* The caller takes the outcome; the coder is ready for the next call.
Return ==
  /\ call.op # "none"
  /\ call' = NoCall
  /\ result' = Err("")
  /\ served' = served + 1
  /\ UNCHANGED <<idl, accountLayouts, thisIdl, header>>

Next ==
  \/ \E accountName \in Names : \E account \in ValuesFor(accountName) :
       Encode(accountName, account)
  \/ \E accountName \in Names, data \in Inputs : Decode(accountName, data)
  \/ \E accountName \in Names, ix \in Inputs : DecodeUnchecked(accountName, ix)
  \/ \E accountName \in Names : Memcmp(accountName)
  \/ MemcmpDataOffset
  \/ \E idlAccount \in Declared : Size(idlAccount)
  \/ Return

Spec == Init /\ [][Next]_vars

(***************************************************************************)
(* Properties.                                                             *)
(***************************************************************************)
Registered(name) == name \in DOMAIN accountLayouts

Legacy == idl.layoutVersion = {}

\* The first k bytes of SHA-256("account:" + canonical name).
Digest(name, k) == [i \in 1..k |-> Sha256Digest("account:" \o PascalCase(name))[i]]

\* The bytes of b at [from, from + width), as far as b has them.
BytesAt(b, from, width) == [i \in 1..(Min(from + width, Len(b)) - Min(from, Len(b))) |-> b[from + i]]

TheAccount == CHOOSE v \in call.account : TRUE

\* C1: round trip: for every registered type T and every value v valid for
\* T's layout, encode(T, v) yields a record and decode(T, that record)
\* passes the discriminator check and returns v, in both formats.
C1_RoundTrip ==
  (call.op = "encode" /\ Registered(call.accountName))
    => /\ result.kind = "ok"
       /\ decode(This, call.accountName, result.bytes) = OkValue(TheAccount)

\* The round trip of C1 for the values whose body fits the scratch buffer.
RoundTripWithinBuffer ==
  (call.op = "encode" /\ Registered(call.accountName)
     /\ Len(LayoutBytes(accountLayouts[call.accountName], TheAccount)) <= ENCODE_BUFFER_SIZE)
    => /\ result.kind = "ok"
       /\ decode(This, call.accountName, result.bytes) = OkValue(TheAccount)

C3_DiscriminatorChecked ==
  (call.op = "decode" /\ Registered(call.accountName))
    => LET off == IF Legacy THEN 0 ELSE 2
           width == IF Legacy THEN 8 ELSE 4
           same == BytesAt(call.data, off, width) = Digest(call.accountName, width)
       IN /\ result.kind = "ok" => same
          /\ ~same => result = Err("InvalidDiscriminator")

\* A record of type blob handed to decode as a counter.
C3_Witness ==
  /\ call.op = "decode" /\ call.accountName = "counter" /\ Registered("counter")
  /\ call.data = encode(This, "blob", [data |-> <<1>>]).bytes
  /\ Len(call.data) = 13
  /\ result = Err("InvalidDiscriminator")

\* C4: decode with a name that is not registered fails with `Unknown
\* account`, whatever the bytes.
C4_DecodeUnknownType ==
  (call.op = "decode" /\ ~Registered(call.accountName))
    => result = Err("UnknownAccount")

\* C5: decode and decodeUnchecked on a registered type reject every input
\* shorter than the 8-byte header as malformed (here: the RangeError of a
\* read outside the buffer) and never return a value for it.
C5_ShortInputRejected ==
  (call.op \in {"decode", "decodeUnchecked"} /\ Registered(call.accountName)
     /\ Len(call.data) < 8)
    => result = Err("RangeError")

\* The part of C5 that holds of no implementation detail: a short input
\* is never decoded to a value.
ShortInputNeverAccepted ==
  (call.op \in {"decode", "decodeUnchecked"} /\ Registered(call.accountName)
     /\ Len(call.data) < 8)
    => result.kind = "error"

\* C6: memcmp with a name that is not registered fails with `Unknown
\* account` and returns no filter.
C6_MemcmpUnknownType ==
  (call.op = "memcmp" /\ ~Registered(call.accountName))
    => result = Err("UnknownAccount")

\* C7: a coder built from a schema with no account types has an empty
\* registry, and encode, decode, decodeUnchecked and memcmp fail on it with
\* `Unknown account` for every name and input.
C7_EmptySchema ==
  (idl.accounts = {} \/ idl.accounts = {<<>>})
    => /\ DOMAIN accountLayouts = {}
       /\ call.op \in {"encode", "decode", "decodeUnchecked", "memcmp"}
            => result = Err("UnknownAccount")

\* C8: decodeUnchecked on a registered type strips exactly the first 8
\* bytes and returns the layout's decoding of the rest; the 8 bytes it
\* strips do not matter, in either format.
C8_UncheckedStripsHeader ==
  (call.op = "decodeUnchecked" /\ Registered(call.accountName) /\ Len(call.data) >= 8)
    => LET body == [i \in 1..(Len(call.data) - 8) |-> call.data[i + 8]]
       IN /\ result = layoutDecode(accountLayouts[call.accountName], body)
          /\ \A h \in Headers : decodeUnchecked(This, call.accountName, h \o body) = result

\* A versioned record of type blob decoded, unchecked, as type counter.
C8_Witness ==
  /\ call.op = "decodeUnchecked" /\ call.accountName = "counter" /\ Registered("counter")
  /\ ~Legacy
  /\ call.data = encode(This, "blob", [data |-> <<1>>]).bytes
  /\ Len(call.data) = 13
  /\ result = OkValue([n |-> 1])

\* The outcome of a call on the coder self.
Apply(self, c) ==
  CASE c.op = "encode" -> encode(self, c.accountName, CHOOSE v \in c.account : TRUE)
    [] c.op = "decode" -> decode(self, c.accountName, c.data)
    [] c.op = "decodeUnchecked" -> decodeUnchecked(self, c.accountName, c.data)
    [] c.op = "memcmp" -> memcmp(self, c.accountName)
    [] c.op = "memcmpDataOffset" -> memcmpDataOffset(self)
    [] c.op = "size" -> size(self, CHOOSE acc \in Declared : acc.name = c.accountName)

\* C9: no call, successful or failed, changes the coder: after any number
\* of calls its registry, schema and header are those of construction, and
\* the outcome of a call is that of the same call on a fresh coder.
C9_CoderUnchanged ==
  /\ This = constructor(idl)
  /\ call.op # "none" => result = Apply(constructor(idl), call)

\* A call that succeeds after earlier calls on the same coder.
C9_Witness ==
  /\ served >= 1
  /\ call.op = "decode" /\ result.kind = "ok"
  /\ This = constructor(idl)

====
